---- MODULE Spec2Model ----
(***************************************************************************)
(* Model of db-migrate: the Version value type (src/lib.rs), the legacy    *)
(* text comparison compare_versions (src/types.rs), the migration registry *)
(* MigrationsBuilder and the reconciliation function migrate               *)
(* (src/sync/mod.rs), and the sqlite backend (src/sync/sqlite.rs).         *)
(*                                                                         *)
(* A text is a sequence of one-character strings; a Version is its `parts` *)
(* vector, a sequence of u32.  A u32 is the pair <<hi, lo>> of its two     *)
(* 16-bit halves, value hi * 2^16 + lo, so that the whole range of the     *)
(* type, and the overflow of a parse, is within the checker's integers.    *)
(***************************************************************************)
EXTENDS Integers, Sequences, FiniteSets, TLC

VARIABLES
    migrations,   \* MigrationsBuilder.migrations: Version -> name (HashMap)
    regLog,       \* history: the successful add_migration calls, in order
    table,        \* number of `migration` tables in the sqlite database
    rows,         \* rows of the `migration` table: [sequence, version, name]
    savedOk,      \* history: every info for which save_migration returned Ok
    last,         \* the last operation called and what it returned
    vin,          \* Version checks: the two input texts
    vout          \* Version checks: the last result computed from vin

vars == <<migrations, regLog, table, rows, savedOk, last, vin, vout>>

(***************************************************************************)
(* Bounds and input sets                                                   *)
(***************************************************************************)
MaxTextLen == 3
MaxRegs == 2
MaxBody == 2

\* 2^16: a u32 is <<hi, lo>> with hi, lo \in 0..Limb-1
Limb == 65536

Chars == {"0", "1", ".", "+"}
DigitChars == <<"0", "1", "2", "3", "4", "5", "6", "7", "8", "9">>

\* the largest u32 and the smallest number that is not one
TextU32Max == <<"4", "2", "9", "4", "9", "6", "7", "2", "9", "5">>
TextU32Over == <<"4", "2", "9", "4", "9", "6", "7", "2", "9", "6">>

Texts == UNION {[1..k -> Chars] : k \in 0..MaxTextLen} \cup {TextU32Max, TextU32Over}

\* texts handed to add_migration: two texts of one version ("1", "01"), a
\* prefix pair ("1", "1.0"), a version of one part above one of two parts
\* ("10", "1.0") and two malformed texts ("", "1.")
RegTexts == {<<"1">>, <<"0", "1">>, <<"1", "0">>, <<"1", ".", "0">>,
             <<>>, <<"1", ".">>}
Names == {"a", "b"}
SeqNums == {1, 2}
Errs == {"io"}

(***************************************************************************)
(* Text helpers                                                            *)
(***************************************************************************)
IsDigit(c) == \E i \in 1..10 : DigitChars[i] = c
DigitVal(c) == (CHOOSE i \in 1..10 : DigitChars[i] = c) - 1

\* byte value of a character (str::cmp orders by bytes)
Code(c) == IF c = "+" THEN 43 ELSE IF c = "." THEN 46 ELSE 48 + DigitVal(c)

RECURSIVE SplitFrom(_, _, _)
\* s.split("."): cur is the piece being read, i the next index
SplitFrom(s, i, cur) ==
    IF i > Len(s) THEN <<cur>>
    ELSE IF s[i] = "." THEN <<cur>> \o SplitFrom(s, i + 1, <<>>)
    ELSE SplitFrom(s, i + 1, Append(cur, s[i]))

Split(s) == SplitFrom(s, 1, <<>>)

U32(n) == <<n \div Limb, n % Limb>>
Zero == U32(0)

\* acc * 10 + d as a u32, or overflow
MulAdd(acc, d) ==
    LET lo == acc[2] * 10 + d
        hi == acc[1] * 10 + (lo \div Limb)
    IN [ok |-> hi < Limb, val |-> <<hi % Limb, lo % Limb>>]

\* n / 10 and n % 10 of a u32
Div10(n) == <<n[1] \div 10, (((n[1] % 10) * Limb) + n[2]) \div 10>>
Mod10(n) == (((n[1] % 10) * Limb) + n[2]) % 10

\* u32::cmp
CmpU32(a, b) ==
    IF a[1] < b[1] \/ (a[1] = b[1] /\ a[2] < b[2]) THEN "Less"
    ELSE IF a = b THEN "Equal" ELSE "Greater"

RECURSIVE ParseDigits(_, _, _)
\* checked accumulation of decimal digits into a u32
ParseDigits(p, i, acc) ==
    IF i > Len(p) THEN [ok |-> TRUE, val |-> acc]
    ELSE IF ~IsDigit(p[i]) THEN [ok |-> FALSE, val |-> Zero]
    ELSE LET r == MulAdd(acc, DigitVal(p[i])) IN
         IF ~r.ok THEN [ok |-> FALSE, val |-> Zero]
         ELSE ParseDigits(p, i + 1, r.val)

\* str::parse::<u32>(): empty fails, one leading "+" is accepted, a sign
\* alone fails, then digits only, overflow fails
ParseU32(p) ==
    IF Len(p) = 0 THEN [ok |-> FALSE, val |-> Zero]
    ELSE IF p[1] = "+"
         THEN IF Len(p) = 1 THEN [ok |-> FALSE, val |-> Zero]
              ELSE ParseDigits(p, 2, Zero)
         ELSE ParseDigits(p, 1, Zero)

RECURSIVE FormatU32(_)
\* Display of a u32: decimal, no sign, no leading zero
FormatU32(n) ==
    IF n[1] = 0 /\ n[2] < 10 THEN <<DigitChars[n[2] + 1]>>
    ELSE FormatU32(Div10(n)) \o <<DigitChars[Mod10(n) + 1]>>

(***************************************************************************)
(* Version (src/lib.rs)                                                    *)
(***************************************************************************)
RECURSIVE CollectParts(_, _)
\* .map(|p| p.parse()).collect::<Result<Vec<u32>, _>>(): first error wins
CollectParts(pieces, i) ==
    IF i > Len(pieces) THEN [ok |-> TRUE, parts |-> <<>>]
    ELSE LET r == ParseU32(pieces[i]) IN
         IF ~r.ok THEN [ok |-> FALSE, parts |-> <<>>]
         ELSE LET rest == CollectParts(pieces, i + 1) IN
              IF ~rest.ok THEN rest
              ELSE [ok |-> TRUE, parts |-> <<r.val>> \o rest.parts]

\* Version::from_str
from_str(s) == CollectParts(Split(s), 1)

RECURSIVE DisplayFrom_nosep(_, _)
\* variant: the separator is left out
DisplayFrom_nosep(parts, i) ==
    IF i > Len(parts) THEN <<>>
    ELSE FormatU32(parts[i]) \o DisplayFrom_nosep(parts, i + 1)

RECURSIVE DisplayFrom(_, _)
DisplayFrom(parts, i) ==
    IF i > Len(parts) THEN <<>>
    ELSE <<".">> \o FormatU32(parts[i]) \o DisplayFrom(parts, i + 1)

\* Display for Version: first part bare, each later part after a "."
Display(parts) ==
    IF Len(parts) = 0 THEN <<>>
    ELSE FormatU32(parts[1]) \o DisplayFrom(parts, 2)

\* u8::cmp, for the bytes of a str
CmpNat(a, b) == IF a < b THEN "Less" ELSE IF a > b THEN "Greater" ELSE "Equal"

RECURSIVE CmpSeqFrom(_, _, _)
\* derived Ord on Vec<u32>: lexicographic, a strict prefix is Less
CmpSeqFrom(a, b, i) ==
    IF i > Len(a) /\ i > Len(b) THEN "Equal"
    ELSE IF i > Len(a) THEN "Less"
    ELSE IF i > Len(b) THEN "Greater"
    ELSE IF CmpU32(a[i], b[i]) # "Equal" THEN CmpU32(a[i], b[i])
    ELSE CmpSeqFrom(a, b, i + 1)

\* Ord for Version (derived: compares `parts`)
VersionCmp(a, b) == CmpSeqFrom(a, b, 1)

(***************************************************************************)
(* compare_versions (src/types.rs)                                         *)
(***************************************************************************)
RECURSIVE StrCmpFrom(_, _, _)
\* str::cmp: bytewise lexicographic
StrCmpFrom(a, b, i) ==
    IF i > Len(a) /\ i > Len(b) THEN "Equal"
    ELSE IF i > Len(a) THEN "Less"
    ELSE IF i > Len(b) THEN "Greater"
    ELSE IF CmpNat(Code(a[i]), Code(b[i])) # "Equal" THEN CmpNat(Code(a[i]), Code(b[i]))
    ELSE StrCmpFrom(a, b, i + 1)

StrCmp(a, b) == StrCmpFrom(a, b, 1)

\* variant: the pieces are compared as text only
PieceCmp_text(p1, p2) == StrCmp(p1, p2)

\* one loop iteration's comparison of two pieces
PieceCmp(p1, p2) ==
    LET r1 == ParseU32(p1)
        r2 == ParseU32(p2)
    IN IF r1.ok /\ r2.ok THEN CmpU32(r1.val, r2.val) ELSE StrCmp(p1, p2)

RECURSIVE CompareLoop(_, _, _)
CompareLoop(ps1, ps2, i) ==
    IF i > Len(ps1) /\ i > Len(ps2) THEN "Equal"
    ELSE IF i > Len(ps1) THEN "Less"
    ELSE IF i > Len(ps2) THEN "Greater"
    ELSE IF PieceCmp(ps1[i], ps2[i]) # "Equal" THEN PieceCmp(ps1[i], ps2[i])
    ELSE CompareLoop(ps1, ps2, i + 1)

compare_versions(v1, v2) == CompareLoop(Split(v1), Split(v2), 1)

(***************************************************************************)
(* Containers                                                              *)
(***************************************************************************)
\* Option<T>: None is <<>>, Some(x) is <<x>>
None == <<>>
Some(x) == <<x>>

EmptyMap == [k \in {} |-> None]

\* variant: a value already under the key is kept (entry().or_insert())
HashMapInsert_keep(m, k, v) ==
    [x \in (DOMAIN m) \cup {k} |-> IF x \in DOMAIN m THEN m[x] ELSE v]

\* HashMap::insert: the value replaces any value already under the key
HashMapInsert(m, k, v) ==
    [x \in (DOMAIN m) \cup {k} |-> IF x = k THEN v ELSE m[x]]

RECURSIVE CollectMap(_, _, _)
\* .collect::<HashMap<_, _>>() of the pairs (Key(x), x) of a Vec, in order
CollectMap(list, i, m) ==
    IF i > Len(list) THEN m
    ELSE CollectMap(list, i + 1, HashMapInsert(m, list[i].key, list[i].value))

RECURSIVE Orderings(_)
\* the orders in which the entries of a HashMap may be iterated
Orderings(S) ==
    IF S = {} THEN {<<>>}
    ELSE UNION {{<<x>> \o o : o \in Orderings(S \ {x})} : x \in S}

RECURSIVE InsertSorted(_, _)
InsertSorted(sorted, m) ==
    IF Len(sorted) = 0 THEN <<m>>
    ELSE IF VersionCmp(m.version, Head(sorted).version) = "Less" THEN <<m>> \o sorted
    ELSE <<Head(sorted)>> \o InsertSorted(Tail(sorted), m)

RECURSIVE SortFrom(_, _, _)
SortFrom(list, i, acc) ==
    IF i > Len(list) THEN acc
    ELSE SortFrom(list, i + 1, InsertSorted(acc, list[i]))

\* variant: the list is left in the order of the map's iteration
SortByVersion_unsorted(list) == list

\* sort_unstable_by(|m1, m2| m1.version.cmp(&m2.version))
SortByVersion(list) == SortFrom(list, 1, <<>>)

(***************************************************************************)
(* Entities                                                                *)
(***************************************************************************)
MigrationInfo(version, name) == [version |-> version, name |-> name]
ExecutedMigrationInfo(sequence, version, name) ==
    [migration |-> MigrationInfo(version, name), sequence |-> sequence]

\* the Version values a caller can build: from_str is the only constructor
Versions == {from_str(t).parts : t \in {x \in RegTexts : from_str(x).ok}}
Infos == {ExecutedMigrationInfo(q, v, n) : q \in SeqNums, v \in Versions, n \in Names}

NoCalls == <<>>
Result(op, res, err, flag, val, calls) ==
    [op |-> op, res |-> res, err |-> err, flag |-> flag, val |-> val, calls |-> calls]

(***************************************************************************)
(* sqlite backend (src/sync/sqlite.rs)                                     *)
(***************************************************************************)
\* reading the `version` column back into a Version: the text is parsed
FromSqlVersion(text) == from_str(text).parts

\* variant: CREATE TABLE without IF NOT EXISTS
CreateTable(tbl, fault) ==
    IF fault # "none" THEN [ok |-> FALSE, err |-> fault, tables |-> tbl]
    ELSE IF tbl # 0 THEN [ok |-> FALSE, err |-> "table exists", tables |-> tbl]
    ELSE [ok |-> TRUE, err |-> "none", tables |-> 1]

\* CREATE TABLE IF NOT EXISTS migration (...) on a database with tbl tables
\* named migration; fault is the database's own failure, if any
CreateTableIfNotExists(tbl, fault) ==
    IF fault # "none" THEN [ok |-> FALSE, err |-> fault, tables |-> tbl]
    ELSE [ok |-> TRUE, err |-> "none", tables |-> IF tbl = 0 THEN 1 ELSE tbl]

\* variant: INSERT OR REPLACE, the rows in the way are deleted
SaveMigration_replace(tbl, rws, info) ==
    LET version_str == Display(info.migration.version) IN
    IF tbl = 0 THEN [ok |-> FALSE, err |-> "no such table", rows |-> rws]
    ELSE [ok |-> TRUE, err |-> "none",
          rows |-> {r \in rws : r.sequence # info.sequence /\ r.version # version_str}
                     \cup {[sequence |-> info.sequence, version |-> version_str,
                             name |-> info.migration.name]}]

\* variant: the version column is not declared unique
SaveMigration_nounique(tbl, rws, info) ==
    LET version_str == Display(info.migration.version) IN
    IF tbl = 0 THEN [ok |-> FALSE, err |-> "no such table", rows |-> rws]
    ELSE IF \E r \in rws : r.sequence = info.sequence
    THEN [ok |-> FALSE, err |-> "UNIQUE constraint failed: migration.sequence", rows |-> rws]
    ELSE [ok |-> TRUE, err |-> "none",
          rows |-> rws \cup {[sequence |-> info.sequence, version |-> version_str,
                              name |-> info.migration.name]}]

\* Transaction::save_migration on a database with tbl tables and rows rws:
\* the insert fails without the table, on a used primary key (sequence) and
\* on a used unique version text
SaveMigration(tbl, rws, info) ==
    LET version_str == Display(info.migration.version) IN
    IF tbl = 0 THEN [ok |-> FALSE, err |-> "no such table", rows |-> rws]
    ELSE IF \E r \in rws : r.sequence = info.sequence
    THEN [ok |-> FALSE, err |-> "UNIQUE constraint failed: migration.sequence", rows |-> rws]
    ELSE IF \E r \in rws : r.version = version_str
    THEN [ok |-> FALSE, err |-> "UNIQUE constraint failed: migration.version", rows |-> rws]
    ELSE [ok |-> TRUE, err |-> "none",
          rows |-> rws \cup {[sequence |-> info.sequence, version |-> version_str,
                              name |-> info.migration.name]}]

RECURSIVE RunBody(_, _, _, _, _)
\* the closure handed to in_transaction: save_migration(&body[i])? for each
\* i, then the closure's own result bodyErr; saved lists the infos saved
RunBody(tbl, rws, body, i, saved) ==
    IF i > Len(body) THEN [rows |-> rws, saved |-> saved, err |-> "none"]
    ELSE LET r == SaveMigration(tbl, rws, body[i]) IN
         IF ~r.ok THEN [rows |-> rws, saved |-> saved, err |-> r.err]
         ELSE RunBody(tbl, r.rows, body, i + 1, Append(saved, body[i]))

\* Connection::in_transaction: f(self).map_err(|e| (false, e)); f runs on
\* the connection itself, in autocommit mode, so nothing is undone
InTransactionRun(tbl, rws, body, bodyErr) ==
    LET r == RunBody(tbl, rws, body, 1, <<>>)
        e == IF r.err # "none" THEN r.err ELSE bodyErr
    IN [rows |-> r.rows, saved |-> r.saved, err |-> e, flag |-> FALSE]

RECURSIVE RowList(_)
\* the rows in the order of a table scan: ascending rowid, which is the
\* integer primary key `sequence`
RowList(rws) ==
    IF rws = {} THEN <<>>
    ELSE LET r == CHOOSE x \in rws : \A y \in rws : x.sequence <= y.sequence
         IN <<r>> \o RowList(rws \ {r})

\* Connection::load_existing_migrations; fault is the database's own
\* failure, if any
LoadExistingMigrations(tbl, rws, fault) ==
    IF tbl = 0 THEN [ok |-> FALSE, err |-> "no such table", list |-> <<>>]
    ELSE IF fault # "none" THEN [ok |-> FALSE, err |-> fault, list |-> <<>>]
    ELSE LET l == RowList(rws) IN
         [ok |-> TRUE, err |-> "none",
          list |-> [i \in 1..Len(l) |->
                      ExecutedMigrationInfo(l[i].sequence, FromSqlVersion(l[i].version),
                                            l[i].name)]]

Bodies == UNION {[1..k -> Infos] : k \in 0..MaxBody}
SeqToSet(q) == {q[i] : i \in 1..Len(q)}

\* conn.ensure_migration_table(), fault the database's own failure if any
EnsureMigrationTable ==
    \E fault \in Errs \cup {"none"} :
        LET r == CreateTableIfNotExists(table, fault) IN
        /\ table' = r.tables
        /\ last' = Result("ensure_migration_table", IF r.ok THEN "Ok" ELSE "Err",
                          r.err, FALSE, <<>>, NoCalls)
        /\ UNCHANGED <<migrations, regLog, rows, savedOk, vin, vout>>

\* conn.load_existing_migrations()
LoadExisting ==
    \E fault \in Errs \cup {"none"} :
        LET r == LoadExistingMigrations(table, rows, fault) IN
        /\ last' = Result("load_existing_migrations", IF r.ok THEN "Ok" ELSE "Err",
                          r.err, FALSE, r.list, NoCalls)
        /\ UNCHANGED <<migrations, regLog, table, rows, savedOk, vin, vout>>

\* conn.in_transaction(|t| { t.save_migration(&body[1])?; ...; bodyErr })
InTransactionOf(bodies, bodyErrs) ==
    \E body \in bodies, bodyErr \in bodyErrs :
        LET r == InTransactionRun(table, rows, body, bodyErr) IN
        /\ rows' = r.rows
        /\ savedOk' = savedOk \cup SeqToSet(r.saved)
        /\ last' = Result("in_transaction", IF r.err = "none" THEN "Ok" ELSE "Err",
                          r.err, r.flag, r.saved, NoCalls)
        /\ UNCHANGED <<migrations, regLog, table, vin, vout>>

InTransaction == InTransactionOf(Bodies, {"none", "body"})

\* conn.in_transaction(|t| t.save_migration(&info))
SaveOne == InTransactionOf([1..1 -> Infos], {"none"})

(***************************************************************************)
(* Registry (src/sync/mod.rs, MigrationsBuilder)                           *)
(***************************************************************************)
\* MigrationsBuilder::add_migration(version, name, f)
AddMigration ==
    \E text \in RegTexts, name \in Names :
        LET v == from_str(text) IN
        /\ Len(regLog) < MaxRegs
        /\ IF v.ok
           THEN /\ migrations' = HashMapInsert(migrations, v.parts,
                                               MigrationInfo(v.parts, name))
                /\ regLog' = Append(regLog, [text |-> text, name |-> name])
                /\ last' = Result("add_migration", "Ok", "none", FALSE, <<>>, NoCalls)
           ELSE /\ last' = Result("add_migration", "Err", "ParseVersionError", FALSE,
                                  <<>>, NoCalls)
                /\ UNCHANGED <<migrations, regLog>>
        /\ UNCHANGED <<table, rows, savedOk, vin, vout>>

\* the Vecs all_migrations may return: the map's values in any order
all_migrations(m) ==
    {[i \in 1..Cardinality(DOMAIN m) |-> m[o[i]]] : o \in Orderings(DOMAIN m)}

AllMigrations ==
    \E list \in all_migrations(migrations) :
        /\ last' = Result("all_migrations", "Ok", "none", FALSE, list, NoCalls)
        /\ UNCHANGED <<migrations, regLog, table, rows, savedOk, vin, vout>>

(***************************************************************************)
(* Reconciliation (src/sync/mod.rs, migrate)                               *)
(***************************************************************************)
\* variant: a key of m2 gets a fresh (None, Some(v2)) entry
merge_replace(m1, m2) ==
    [k \in (DOMAIN m1) \cup (DOMAIN m2) |->
        IF k \in DOMAIN m2 THEN <<None, Some(m2[k])>> ELSE <<Some(m1[k]), None>>]

\* merge: every key of m1 with (Some(v1), None), then every key of m2 gets
\* its second component set, entered as (None, None) first when it is new
merge(m1, m2) ==
    [k \in (DOMAIN m1) \cup (DOMAIN m2) |->
        <<IF k \in DOMAIN m1 THEN Some(m1[k]) ELSE None,
          IF k \in DOMAIN m2 THEN Some(m2[k]) ELSE None>>]

\* check_unexpected_migrations: the pairs without a declared migration,
\* their recorded MigrationInfo, sorted; an error when there is any
check_unexpected_migrations(migration_state) ==
    LET filtered == SelectSeq(migration_state, LAMBDA p : p[1] = None)
        unexpected_migrations ==
            SortByVersion([i \in 1..Len(filtered) |-> filtered[i][2][1].migration])
    IN IF Len(unexpected_migrations) # 0
       THEN [ok |-> FALSE, list |-> unexpected_migrations]
       ELSE [ok |-> TRUE, list |-> <<>>]

Call(fn, err) == [fn |-> fn, err |-> err]

\* migrate from the merge on: declared is the Vec all_migrations returned,
\* loaded the Vec load_existing_migrations returned, order the iteration
\* order of the merged map
Reconcile(declared, loaded, order, calls) ==
    LET available ==
            CollectMap([i \in 1..Len(declared) |->
                          [key |-> declared[i].version, value |-> declared[i]]],
                       1, EmptyMap)
        existing ==
            CollectMap([i \in 1..Len(loaded) |->
                          [key |-> loaded[i].migration.version, value |-> loaded[i]]],
                       1, EmptyMap)
        merged == merge(available, existing)
        migration_state == [i \in 1..Len(order) |-> merged[order[i]]]
        r == check_unexpected_migrations(migration_state)
    IN IF r.ok
       THEN Result("migrate", "Ok", "none", FALSE, <<>>, calls)
       ELSE Result("migrate", "UnexpectedMigrations", "none", FALSE, r.list, calls)

\* variant: a failed load counts as no recorded execution
AfterLoad_swallow(declared, load, order, calls) ==
    Reconcile(declared, load.list, order, calls)

\* conn.load_existing_migrations()?: the error ends migrate
AfterLoad(declared, load, order, calls) ==
    IF ~load.ok
    THEN Result("migrate", "DatabaseError", load.err, FALSE, <<>>, calls)
    ELSE Reconcile(declared, load.list, order, calls)

MergedKeys(declared, load) ==
    {declared[i].version : i \in 1..Len(declared)}
        \cup {load.list[i].migration.version : i \in 1..Len(load.list)}

\* migrate(conn, migrations); efault and lfault are the failures of the
\* database during the two backend calls, if any
Migrate ==
    \E efault \in Errs \cup {"none"} :
        LET ensure == CreateTableIfNotExists(table, efault) IN
        /\ table' = ensure.tables
        /\ IF ~ensure.ok
           THEN last' = Result("migrate", "DatabaseError", ensure.err, FALSE, <<>>,
                               <<Call("ensure_migration_table", ensure.err)>>)
           ELSE \E declared \in all_migrations(migrations), lfault \in Errs \cup {"none"} :
                  LET load == LoadExistingMigrations(ensure.tables, rows, lfault)
                      calls == <<Call("ensure_migration_table", "none"),
                                 Call("load_existing_migrations", load.err)>>
                  IN \E order \in Orderings(MergedKeys(declared, load)) :
                       last' = AfterLoad(declared, load, order, calls)
        /\ UNCHANGED <<migrations, regLog, rows, savedOk, vin, vout>>

(***************************************************************************)
(* Specifications                                                          *)
(***************************************************************************)
NoResult == Result("none", "none", "none", FALSE, <<>>, NoCalls)
NoVersionResult ==
    [op |-> "none", parsed |-> [ok |-> FALSE, parts |-> <<>>], shown |-> <<>>,
     ord |-> "none", txt |-> "none", canon |-> "none"]

\* MigrationsBuilder::new() and a fresh database without the table
Init ==
    /\ migrations = EmptyMap
    /\ regLog = <<>>
    /\ table = 0
    /\ rows = {}
    /\ savedOk = {}
    /\ last = NoResult
    /\ vin = <<<<>>, <<>>>>
    /\ vout = NoVersionResult

\* a registry is built, records are saved, migrate is called
Next ==
    \/ AddMigration
    \/ EnsureMigrationTable
    \/ SaveOne
    \/ Migrate

Spec == Init /\ [][Next]_vars

\* the registry alone
NextRegistry ==
    \/ AddMigration
    \/ AllMigrations

SpecRegistry == Init /\ [][NextRegistry]_vars

\* the sqlite backend alone
NextStore ==
    \/ EnsureMigrationTable
    \/ LoadExisting
    \/ InTransaction

SpecStore == Init /\ [][NextStore]_vars

\* s.parse::<Version>() and format!("{}", version) of the first text
RoundTrip ==
    LET p == from_str(vin[1]) IN
    /\ vout' = [NoVersionResult EXCEPT !.op = "roundtrip", !.parsed = p,
                                       !.shown = IF p.ok THEN Display(p.parts) ELSE <<>>]
    /\ UNCHANGED <<migrations, regLog, table, rows, savedOk, last, vin>>

\* the two texts compared: as Versions when both parse, by compare_versions
\* as given, and by compare_versions on the Versions' Display
Compare ==
    LET p1 == from_str(vin[1])
        p2 == from_str(vin[2])
        both == p1.ok /\ p2.ok
    IN
    /\ vout' = [NoVersionResult EXCEPT
                  !.op = "compare",
                  !.ord = IF both THEN VersionCmp(p1.parts, p2.parts) ELSE "none",
                  !.txt = compare_versions(vin[1], vin[2]),
                  !.canon = IF both
                            THEN compare_versions(Display(p1.parts), Display(p2.parts))
                            ELSE "none"]
    /\ UNCHANGED <<migrations, regLog, table, rows, savedOk, last, vin>>

InitVersion ==
    /\ migrations = EmptyMap
    /\ regLog = <<>>
    /\ table = 0
    /\ rows = {}
    /\ savedOk = {}
    /\ last = NoResult
    /\ vin \in Texts \X Texts
    /\ vout = NoVersionResult

NextVersion ==
    \/ RoundTrip
    \/ Compare

SpecVersion == InitVersion /\ [][NextVersion]_vars

(***************************************************************************)
(* Properties                                                              *)
(***************************************************************************)
U32Less(a, b) == a[1] < b[1] \/ (a[1] = b[1] /\ a[2] < b[2])

\* a orders before b: at the first index where they differ, a has ended
\* or has the smaller number
VerLess(a, b) ==
    \E i \in 1..Len(b) :
        /\ i <= Len(a) + 1
        /\ \A j \in 1..(i - 1) : a[j] = b[j]
        /\ (i = Len(a) + 1 \/ U32Less(a[i], b[i]))

\* the recorded executions, as load_existing_migrations reports them
Recorded ==
    {ExecutedMigrationInfo(r.sequence, FromSqlVersion(r.version), r.name) : r \in rows}
Declared == DOMAIN migrations
UnexpectedSet == {e.migration : e \in {x \in Recorded : x.migration.version \notin Declared}}

\* the last call was migrate and both of its backend calls succeeded
MigrateLoaded ==
    /\ last.op = "migrate"
    /\ Len(last.calls) = 2
    /\ last.calls[1].err = "none"
    /\ last.calls[2].err = "none"

\* C1: when both backend calls succeed and some recorded execution has a
\* version that is not declared, migrate fails with UnexpectedMigrations
\* whose list holds exactly the MigrationInfo of the recorded executions
\* with an undeclared version, each once, in ascending Version order.
C1_UnexpectedListed ==
    (MigrateLoaded /\ UnexpectedSet # {}) =>
        /\ last.res = "UnexpectedMigrations"
        /\ SeqToSet(last.val) = UnexpectedSet
        /\ Len(last.val) = Cardinality(UnexpectedSet)
        /\ \A i, j \in 1..Len(last.val) :
             i < j => VerLess(last.val[i].version, last.val[j].version)

C1_Witness ==
    /\ MigrateLoaded
    /\ last.res = "UnexpectedMigrations"
    /\ Len(last.val) = 2
    /\ Declared # {}

\* C2: when both backend calls succeed, migrate returns Ok exactly when
\* every recorded execution's version is the version of a declared
\* migration; names and pending declared migrations play no part.
C2_OkIffAllDeclared ==
    MigrateLoaded =>
        (last.res = "Ok" <=> \A e \in Recorded : e.migration.version \in Declared)

C2_Witness ==
    /\ MigrateLoaded
    /\ last.res = "Ok"
    /\ \E v \in Declared : \A e \in Recorded : e.migration.version # v
    /\ \E e \in Recorded : /\ e.migration.version \in Declared
                           /\ migrations[e.migration.version].name # e.migration.name

\* C9: migrate calls ensure_migration_table first and
\* load_existing_migrations second, each at most once; a failed
\* ensure_migration_table ends migrate with DatabaseError of that error and
\* without the load; a failed load ends it with DatabaseError of that error.
C9_BackendErrorsPropagate ==
    last.op = "migrate" =>
        /\ Len(last.calls) \in {1, 2}
        /\ last.calls[1].fn = "ensure_migration_table"
        /\ last.calls[1].err # "none" =>
             /\ Len(last.calls) = 1
             /\ last.res = "DatabaseError"
             /\ last.err = last.calls[1].err
        /\ last.calls[1].err = "none" =>
             /\ Len(last.calls) = 2
             /\ last.calls[2].fn = "load_existing_migrations"
             /\ last.calls[2].err # "none" =>
                  /\ last.res = "DatabaseError"
                  /\ last.err = last.calls[2].err

C9_Witness ==
    /\ last.op = "migrate"
    /\ Len(last.calls) = 2
    /\ last.calls[2].err = "io"
    /\ last.res = "DatabaseError"
    /\ UnexpectedSet # {}

\* C10: ensure_migration_table, called on its own or by migrate while the
\* store exists and the database itself does not fail, returns Ok, creates
\* no second store and leaves the recorded executions as they were.
C10_EnsureIdempotent ==
    [][(/\ table >= 1
        /\ \/ last'.op = "ensure_migration_table" /\ last'.err \notin Errs
           \/ last'.op = "migrate" /\ last'.calls[1].err \notin Errs)
       => /\ table' = table
          /\ rows' = rows
          /\ last'.op = "ensure_migration_table" => last'.res = "Ok"
          /\ last'.op = "migrate" => last'.calls[1].err = "none"]_vars

C10_Witness ==
    /\ last.op = "ensure_migration_table"
    /\ last.res = "Ok"
    /\ rows # {}

\* C6: all_migrations returns exactly one MigrationInfo for every Version
\* registered with success, named as its most recent registration named it.
C6_LastRegistrationWins ==
    last.op = "all_migrations" =>
        LET ver(i) == from_str(regLog[i].text).parts
            registered == {ver(i) : i \in 1..Len(regLog)}
            latest(v) == CHOOSE i \in 1..Len(regLog) :
                             /\ ver(i) = v
                             /\ \A j \in 1..Len(regLog) : ver(j) = v => j <= i
        IN /\ Len(last.val) = Cardinality(registered)
           /\ \A k \in 1..Len(last.val) : last.val[k].version \in registered
           /\ \A v \in registered :
                \E k \in 1..Len(last.val) :
                    /\ last.val[k] = MigrationInfo(v, regLog[latest(v)].name)
                    /\ \A m \in 1..Len(last.val) : last.val[m].version = v => m = k

C6_Witness ==
    /\ last.op = "all_migrations"
    /\ Len(regLog) = 2
    /\ regLog[1].text # regLog[2].text
    /\ from_str(regLog[1].text).parts = from_str(regLog[2].text).parts
    /\ regLog[1].name # regLog[2].name
    /\ Len(last.val) = 1

\* C3: when the body of in_transaction fails after saving records, the
\* boolean returned with the error is false only if none of those records
\* is returned by a later load_existing_migrations.
C3_FlagReportsCommit ==
    (/\ last.op = "in_transaction"
     /\ last.res = "Err"
     /\ Len(last.val) >= 1
     /\ last.flag = FALSE)
    => \A i \in 1..Len(last.val) :
         last.val[i] \notin SeqToSet(LoadExistingMigrations(table, rows, "none").list)

\* C4: every record save_migration accepted is among the records of every
\* later successful load_existing_migrations, with its version, name and
\* sequence.
C4_SavedIsLoaded ==
    (last.op = "load_existing_migrations" /\ last.res = "Ok") =>
        \A info \in savedOk : \E i \in 1..Len(last.val) : last.val[i] = info

C4_Witness ==
    /\ last.op = "load_existing_migrations"
    /\ last.res = "Ok"
    /\ Cardinality(savedOk) = 2
    /\ \E info \in savedOk : Len(info.migration.version) = 2

\* the row save_migration writes for info
StoredRow(info) ==
    [sequence |-> info.sequence, version |-> Display(info.migration.version),
     name |-> info.migration.name]

\* C5: no two recorded executions share a version or a sequence, and the
\* recorded executions are exactly the accepted saves: a save whose version
\* or sequence is already recorded is refused and adds no record.
C5_VersionsUnique ==
    /\ \A r1, r2 \in rows :
         (r1.version = r2.version \/ r1.sequence = r2.sequence) => r1 = r2
    /\ \A i1, i2 \in savedOk :
         (i1.migration.version = i2.migration.version \/ i1.sequence = i2.sequence)
             => i1 = i2
    /\ rows = {StoredRow(info) : info \in savedOk}
    /\ Cardinality(rows) = Cardinality(savedOk)

\* a save was refused for its version alone
C5_Witness ==
    /\ last.op = "in_transaction"
    /\ last.res = "Err"
    /\ last.err = "UNIQUE constraint failed: migration.version"

(***************************************************************************)
(* Version properties                                                      *)
(***************************************************************************)
\* the order of two versions as the documentation describes it
Described(a, b) ==
    IF VerLess(a, b) THEN "Less" ELSE IF VerLess(b, a) THEN "Greater" ELSE "Equal"

\* C7: two parsed versions compare component by component as numbers, the
\* first difference deciding and a strict prefix first; they are equal
\* exactly when their parts are; compare_versions on their texts agrees.
C7_OrderAsDescribed ==
    (vout.op = "compare" /\ vout.ord # "none") =>
        LET a == from_str(vin[1]).parts
            b == from_str(vin[2]).parts
        IN /\ vout.ord = Described(a, b)
           /\ vout.ord = "Equal" <=> a = b
           /\ vout.txt = vout.ord
           /\ vout.canon = vout.ord

\* a pair that text order and numeric order rank differently
C7_Witness ==
    /\ vout.op = "compare"
    /\ vout.ord = "Less"
    /\ vout.txt = "Less"
    /\ StrCmp(vin[1], vin[2]) = "Greater"

AllDigits(p) == \A i \in 1..Len(p) : IsDigit(p[i])

\* a digit run without a leading zero that is at most 4294967295
CanonicalPiece(p) ==
    /\ Len(p) > 0
    /\ AllDigits(p)
    /\ Len(p) > 1 => p[1] # "0"
    /\ Len(p) <= Len(TextU32Max)
    /\ Len(p) = Len(TextU32Max) => StrCmp(p, TextU32Max) # "Greater"

CanonicalText(s) == \A i \in 1..Len(Split(s)) : CanonicalPiece(Split(s)[i])

RECURSIVE StripZeros(_)
StripZeros(p) == IF Len(p) > 1 /\ p[1] = "0" THEN StripZeros(Tail(p)) ELSE p

\* dot-separated non-negative integers: every piece a non-empty digit run
\* that names a number of at most 4294967295
NumeralText(s) ==
    \A i \in 1..Len(Split(s)) :
        /\ Len(Split(s)[i]) > 0
        /\ AllDigits(Split(s)[i])
        /\ CanonicalPiece(StripZeros(Split(s)[i]))

\* C8 as stated: every dot-separated text of non-negative integers (each
\* within the range of a part) parses and is printed back unchanged.
C8_RoundTripAnyNumeral ==
    (vout.op = "roundtrip" /\ NumeralText(vin[1])) =>
        (vout.parsed.ok /\ vout.shown = vin[1])

\* C8 amended: a text whose every piece is a decimal numeral without sign
\* or leading zero and at most 4294967295 parses and is printed back
\* unchanged.
C8_RoundTripCanonical ==
    (vout.op = "roundtrip" /\ CanonicalText(vin[1])) =>
        (vout.parsed.ok /\ vout.shown = vin[1])

C8_Witness ==
    /\ vout.op = "roundtrip"
    /\ CanonicalText(vin[1])
    /\ Len(vout.parsed.parts) = 2
    /\ vout.shown = vin[1]

====
